---- MODULE Spec2Model ----
(***************************************************************************)
(* Inventory ledger and FEFO allocation of smart-inventory-api.            *)
(*                                                                         *)
(* The store is the committed content of the database tables `batches`,   *)
(* `inventory_transactions` and `locations`.  Every request handler runs   *)
(* in its own worker; one step of a worker is one database statement (or  *)
(* one `transaction.atomic()` commit), so the states of the model are the  *)
(* states another request can observe.                                     *)
(***************************************************************************)
EXTENDS Integers, Sequences, FiniteSets, TLC

\* ---------------------------------------------------------------- bounds
MaxQty      == 2        \* largest quantity in a request or an initial batch
MaxRequests == 2        \* requests begun in one behaviour

Workers  == {"w1", "w2"}
BatchIds == {1, 2, 3}   \* identifiers in creation order (created_at ascending)
Products == {"p1", "p2"}
Dates    == {1, 2}
LastDate == CHOOSE d \in Dates : \A e \in Dates : e <= d
NoExpiry == 0           \* expiry_date IS NULL
ForeignProduct == "px"  \* a product of a business other than the caller's
Expiries == Dates \cup {NoExpiry}

VARIABLES
    batches,    \* table batches: id -> row
    initial,    \* quantity each batch was created with
    ledger,     \* table inventory_transactions, in insertion order
    locations,  \* table locations of the business: is_default of each row
    nullsLast,  \* how the database backend places NULL in ORDER BY ... ASC
    pc,         \* position of each worker in its handler
    req,        \* the request each worker is serving
    row,        \* the Batch instance a worker holds in memory
    qo,         \* locals of QuickOutSerializer.create
    outcome,    \* how the last request of each worker ended
    started,    \* number of requests begun
    min_stock,  \* table products: min_stock of each product of the business
    today,      \* timezone.now().date()
    reply       \* the last response to a read request

vars == <<batches, initial, ledger, locations, nullsLast, pc, req, row, qo,
          outcome, started, min_stock, today, reply>>

\* ------------------------------------------------------------ data model
NoRow == [exists |-> FALSE, product |-> "p1", expiry |-> NoExpiry, quantity |-> 0]

NoReq == [op |-> "none", batch |-> 1, product |-> "p1", quantity |-> 0,
          expiry |-> NoExpiry, reason |-> TRUE, rid |-> 0]

NoReply == [kind |-> "none", user |-> "none", product |-> "none", value |-> 0]

NoQO == [cands |-> <<>>, snap |-> <<>>, remaining |-> 0, pend |-> <<>>]

Min(a, b) == IF a < b THEN a ELSE b

RECURSIVE SumOver(_, _)
SumOver(S, f) ==
    IF S = {} THEN 0
    ELSE LET x == CHOOSE y \in S : TRUE IN f[x] + SumOver(S \ {x}, f)

\* Faulty variant of SignedDelta: the quantity is added whatever the type.
SignedDeltaAdded(type, quantity) == quantity

\* InventoryTransaction.save: the effect of a new entry on its batch.
SignedDelta(type, quantity) ==
    IF type = "IN" THEN quantity
    ELSE IF type = "OUT" THEN 0 - quantity
    ELSE quantity

\* Faulty variant of total_stock: the sum is not restricted to the product's
\* batches.
total_stock_unfiltered(store, p) ==
    LET every == {b \in BatchIds : store[b].exists}
    IN  SumOver(every, [b \in every |-> store[b].quantity])

\* Product.total_stock: Sum('quantity') over the product's batches, or 0.
total_stock(store, p) ==
    LET mine == {b \in BatchIds : store[b].exists /\ store[b].product = p}
    IN  SumOver(mine, [b \in mine |-> store[b].quantity])

\* ORDER BY expiry_date ASC: dated rows ascending; NULL rows first or last as
\* the backend decides; rows with equal keys in any order.
SortKey(e, nl) == IF e = NoExpiry THEN (IF nl THEN LastDate + 1 ELSE 0) ELSE e

Perms(S) ==
    {s \in [1..Cardinality(S) -> S] :
        \A i, j \in 1..Cardinality(S) : i # j => s[i] # s[j]}

order_by_expiry(S, store, nl) ==
    {s \in Perms(S) :
        \A i \in 1..(Cardinality(S) - 1) :
            SortKey(store[s[i]].expiry, nl) <= SortKey(store[s[i + 1]].expiry, nl)}

\* Faulty variant of Candidates: batches without expiry date are left out.
CandidatesDated(store, p) ==
    {b \in BatchIds : store[b].exists /\ store[b].product = p
                        /\ store[b].quantity > 0 /\ store[b].expiry # NoExpiry}

\* Batch.objects.filter(product=product, quantity__gt=0)
Candidates(store, p) ==
    {b \in BatchIds : store[b].exists /\ store[b].product = p /\ store[b].quantity > 0}

\* Row locks: a row updated inside an open transaction.atomic() block stays
\* locked until that block commits or rolls back.
InAtomic(w) == pc[w] = "qo_loop"

Locked(b, w) ==
    \E v \in Workers \ {w} :
        InAtomic(v) /\ \E i \in 1..Len(qo[v].pend) : qo[v].pend[i].batch = b

\* The handler returns: the worker is free again; its request and what
\* QuickOutSerializer.create returned stay on record until its next request.
Finish(w, o) ==
    /\ pc' = [pc EXCEPT ![w] = "idle"]
    /\ outcome' = [outcome EXCEPT ![w] = o]
    /\ row' = [row EXCEPT ![w] = NoRow]
    /\ UNCHANGED <<req, qo>>

Goto(w, label) ==
    /\ pc' = [pc EXCEPT ![w] = label]
    /\ UNCHANGED <<outcome, req>>

\* ------------------------------------------------------------ initial state
\* Batches enter the store outside the ledger (BatchAdmin): a batch starts with
\* the quantity it was created with and no ledger entry.
StoresOf(products, expiries) ==
    [BatchIds -> [exists : {TRUE}, product : products, expiry : expiries,
                  quantity : 0..MaxQty]]

\* Two batches of p1, the later-created one expiring first, and one of p2
\* without expiry; every batch stocked alike.
InitStores ==
    {s \in StoresOf(Products, Expiries) :
        /\ s[1].product = "p1" /\ s[1].expiry = LastDate
        /\ s[2].product = "p1" /\ s[2].expiry \in Dates \ {LastDate}
        /\ s[3].product = "p2" /\ s[3].expiry = NoExpiry
        /\ \A b \in BatchIds : s[b].quantity = s[1].quantity}

InitRest ==
    /\ initial = [b \in BatchIds |-> batches[b].quantity]
    /\ ledger = <<>>
    /\ locations = <<>>
    /\ nullsLast \in BOOLEAN
    /\ row = [w \in Workers |-> NoRow]
    /\ qo = [w \in Workers |-> NoQO]
    /\ outcome = [w \in Workers |-> "none"]
    /\ min_stock = [p \in Products |-> 0]
    /\ today = CHOOSE d \in Dates : \A e \in Dates : d <= e
    /\ reply = NoReply

Init ==
    /\ batches \in InitStores
    /\ InitRest
    /\ pc = [w \in Workers |-> "idle"]
    /\ req = [w \in Workers |-> NoReq]
    /\ started = 0

\* ---------------------------------------------------------------- requests
ReqRecord(op, b, p, q, e) ==
    [op |-> op, batch |-> b, product |-> p, quantity |-> q, expiry |-> e,
     reason |-> TRUE, rid |-> 0]

InOutRequests ==
    {ReqRecord(op, b, "p1", q, NoExpiry) :
        op \in {"IN", "OUT"}, b \in BatchIds, q \in 0..MaxQty}

AdjustRequests ==
    {ReqRecord("ADJUST", b, "p1", q, NoExpiry) :
        b \in BatchIds, q \in (0 - MaxQty)..MaxQty}

QuickOutRequests ==
    {ReqRecord("QUICK_OUT", 1, p, q, NoExpiry) :
        p \in Products, q \in 0..(Cardinality(BatchIds) * MaxQty + 1)}

CreateRequests ==
    {ReqRecord(op, 1, p, q, e) :
        op \in {"CREATE_BATCH", "QUICK_IN"}, p \in {"p1"}, q \in {0, MaxQty},
        e \in {NoExpiry}}

UpdateRequests ==
    {ReqRecord("BATCH_UPDATE", b, "p1", q, NoExpiry) :
        b \in BatchIds, q \in {-1, 0, MaxQty}}

DeleteRequests ==
    {ReqRecord("BATCH_DELETE", b, "p1", 0, NoExpiry) : b \in BatchIds}

MovementRequests ==
    InOutRequests \cup AdjustRequests \cup QuickOutRequests \cup CreateRequests

AllRequests == MovementRequests \cup UpdateRequests \cup DeleteRequests

\* Faulty variant of FieldsValid: the reason of an adjustment is optional.
FieldsValidNoReason(r) ==
    CASE r.op \in {"IN", "QUICK_OUT", "QUICK_IN"} -> r.quantity >= 1
      [] r.op = "OUT" -> r.quantity >= 1 /\ r.reason
      [] OTHER -> TRUE

\* Field-level validation of the serializers (min_value=1; reason is a
\* required field of the outward and adjustment serializers), run by
\* is_valid() before validate() and before any batch query.
FieldsValid(r) ==
    CASE r.op \in {"IN", "QUICK_OUT", "QUICK_IN"} -> r.quantity >= 1
      [] r.op = "OUT" -> r.quantity >= 1 /\ r.reason
      [] r.op = "ADJUST" -> r.reason
      [] OTHER -> TRUE

FirstStep(r) ==
    CASE r.op = "IN" -> "mv_read"
      [] r.op \in {"OUT", "ADJUST"} -> "mv_validate"
      [] r.op = "QUICK_OUT" -> "qo_validate"
      [] r.op \in {"CREATE_BATCH", "QUICK_IN"} -> "cb_location"
      [] r.op = "BATCH_UPDATE" -> "bu_read"
      [] OTHER -> "bd_read"

\* A worker picks up a request: View.post -> serializer.is_valid().
Begin(w, r) ==
    /\ pc[w] = "idle"
    /\ started < MaxRequests
    /\ started' = started + 1
    /\ req' = [req EXCEPT ![w] = [r EXCEPT !.rid = started + 1]]
    /\ qo' = [qo EXCEPT ![w] = NoQO]
    /\ IF FieldsValid(r)
       THEN /\ pc' = [pc EXCEPT ![w] = FirstStep(r)]
            /\ outcome' = [outcome EXCEPT ![w] = "none"]
       ELSE /\ outcome' = [outcome EXCEPT ![w] = "InvalidInput"]
            /\ UNCHANGED pc
    /\ UNCHANGED <<batches, initial, ledger, locations, nullsLast, min_stock, today, reply, row>>

\* ------------------------------------------- single-batch movements
\* Faulty variant of Sufficient: adjustments are not checked.
SufficientOutOnly(r, quantity) ==
    IF r.op = "OUT" THEN ~(quantity < r.quantity) ELSE TRUE

\* OutwardSerializer.validate / AdjustmentSerializer.validate
Sufficient(r, quantity) ==
    IF r.op = "OUT" THEN ~(quantity < r.quantity)
    ELSE ~(quantity + r.quantity < 0)

MvValidate(w) ==
    /\ pc[w] = "mv_validate"
    /\ LET b == req[w].batch IN
       IF ~batches[b].exists THEN Finish(w, "DoesNotExist")
       ELSE IF ~Sufficient(req[w], batches[b].quantity)
            THEN Finish(w, "InsufficientStock")
            ELSE Goto(w, "mv_read") /\ UNCHANGED <<row, qo>>
    /\ UNCHANGED <<batches, initial, ledger, locations,
           nullsLast, min_stock, today, reply, started>>

\* Faulty variant of MvRead: the batch is fetched by product, so the first
\* batch of the product is the one held in memory.
MvReadByProduct(w) ==
    /\ pc[w] = "mv_read"
    /\ LET b == req[w].batch
           first == CHOOSE c \in BatchIds :
                        /\ batches[c].product = batches[b].product
                        /\ \A d \in BatchIds :
                              batches[d].product = batches[b].product => c <= d
       IN  IF ~batches[b].exists THEN Finish(w, "DoesNotExist")
           ELSE /\ Goto(w, "mv_insert")
                /\ row' = [row EXCEPT ![w] = batches[first]]
                /\ UNCHANGED qo
    /\ UNCHANGED <<batches, initial, ledger, locations,
           nullsLast, min_stock, today, reply, started>>

\* create(): batch = Batch.objects.get(id=...)
MvRead(w) ==
    /\ pc[w] = "mv_read"
    /\ LET b == req[w].batch IN
       IF ~batches[b].exists THEN Finish(w, "DoesNotExist")
       ELSE /\ Goto(w, "mv_insert")
            /\ row' = [row EXCEPT ![w] = batches[b]]
            /\ UNCHANGED qo
    /\ UNCHANGED <<batches, initial, ledger, locations,
           nullsLast, min_stock, today, reply, started>>

Entry(r, b, type, quantity) ==
    [batch |-> b, type |-> type, quantity |-> quantity, rid |-> r.rid]

\* InventoryTransaction.save: super().save() inserts the ledger row.
MvInsert(w) ==
    /\ pc[w] = "mv_insert"
    /\ LET b == req[w].batch IN
       IF ~batches[b].exists
       THEN Finish(w, "IntegrityError") /\ UNCHANGED ledger
       ELSE /\ ledger' = Append(ledger, Entry(req[w], b, req[w].op, req[w].quantity))
            /\ Goto(w, "mv_update")
            /\ UNCHANGED <<row, qo>>
    /\ UNCHANGED <<batches, initial, locations, nullsLast, min_stock, today, reply, started>>

\* InventoryTransaction.save: self.batch.quantity +=/-= quantity; batch.save()
\* writes every column of the in-memory instance (and re-inserts a deleted row).
SavedRow(r, mem) ==
    [mem EXCEPT !.quantity = @ + SignedDelta(r.op, r.quantity), !.exists = TRUE]

MvUpdate(w) ==
    /\ pc[w] = "mv_update"
    /\ ~Locked(req[w].batch, w)
    /\ batches' = [batches EXCEPT ![req[w].batch] = SavedRow(req[w], row[w])]
    /\ Finish(w, "ok")
    /\ UNCHANGED <<initial, ledger, locations, nullsLast, min_stock, today, reply, started>>

\* The request dies between the two writes (worker killed, connection lost).
MvFail(w) ==
    /\ pc[w] = "mv_update"
    /\ Finish(w, "error")
    /\ UNCHANGED <<batches, initial, ledger, locations,
           nullsLast, min_stock, today, reply, started>>


\* ------------------------------------------------------------- quick-out
\* QuickOutSerializer.validate: Product.objects.get(id=..., business=
\* user.business) finds the caller's products only; then
\* product.total_stock < quantity is refused.
QoValidate(w) ==
    /\ pc[w] = "qo_validate"
    /\ IF req[w].product \notin Products
       THEN Finish(w, "ProductNotFound")
       ELSE IF total_stock(batches, req[w].product) < req[w].quantity
            THEN Finish(w, "InsufficientStock")
            ELSE Goto(w, "qo_select") /\ UNCHANGED <<row, qo>>
    /\ UNCHANGED <<batches, initial, ledger, locations,
           nullsLast, min_stock, today, reply, started>>

\* Entering transaction.atomic(): `for batch in batches` runs the query once.
QoSelect(w) ==
    /\ pc[w] = "qo_select"
    /\ \E s \in order_by_expiry(Candidates(batches, req[w].product), batches, nullsLast) :
          qo' = [qo EXCEPT ![w] =
                    [cands |-> s,
                     snap |-> [i \in 1..Len(s) |-> batches[s[i]]],
                     remaining |-> req[w].quantity,
                     pend |-> <<>>]]
    /\ Goto(w, "qo_loop")
    /\ UNCHANGED <<batches, initial, ledger, locations,
           nullsLast, min_stock, today, reply, row, started>>

LoopDone(w) ==
    \/ Len(qo[w].pend) >= Len(qo[w].cands)
    \/ qo[w].remaining <= 0

\* One iteration of the loop: deduct_qty = min(batch.quantity, remaining); the
\* ledger insert and batch.save() join the open transaction.
\* Faulty variant of Allocation: the whole batch is taken, min() forgotten.
AllocationWhole(mem, b, remaining) ==
    [batch |-> b, quantity |-> mem.quantity,
     saved |-> [mem EXCEPT !.quantity = 0]]

Allocation(mem, b, remaining) ==
    LET deduct_qty == Min(mem.quantity, remaining)
    IN  [batch |-> b, quantity |-> deduct_qty,
         saved |-> [mem EXCEPT !.quantity = @ - deduct_qty]]

QoDeduct(w) ==
    /\ pc[w] = "qo_loop"
    /\ ~LoopDone(w)
    /\ LET i == Len(qo[w].pend) + 1
           b == qo[w].cands[i]
           a == Allocation(qo[w].snap[i], b, qo[w].remaining)
       IN  /\ ~Locked(b, w)
           /\ IF ~batches[b].exists
              THEN Finish(w, "IntegrityError")
              ELSE /\ qo' = [qo EXCEPT ![w].pend = Append(@, a),
                                       ![w].remaining = @ - a.quantity]
                   /\ UNCHANGED <<pc, outcome, req, row>>
    /\ UNCHANGED <<batches, initial, ledger, locations,
           nullsLast, min_stock, today, reply, started>>

PendingEntries(w) ==
    [i \in 1..Len(qo[w].pend) |->
        Entry(req[w], qo[w].pend[i].batch, "OUT", qo[w].pend[i].quantity)]

RECURSIVE ApplySaved(_, _)
ApplySaved(store, pend) ==
    IF pend = <<>> THEN store
    ELSE ApplySaved([store EXCEPT ![Head(pend).batch] = Head(pend).saved], Tail(pend))

\* Leaving transaction.atomic(): every write of the block commits at once.
QoCommit(w) ==
    /\ pc[w] = "qo_loop"
    /\ LoopDone(w)
    /\ ledger' = ledger \o PendingEntries(w)
    /\ batches' = ApplySaved(batches, qo[w].pend)
    /\ Finish(w, "ok")
    /\ UNCHANGED <<initial, locations, nullsLast, min_stock, today, reply, started>>

\* What create() returns to QuickOutView.post once the block has committed.
QuickOutResult(w) ==
    [total_deducted |-> req[w].quantity,
     transactions |-> PendingEntries(w),
     batches_affected |-> Len(PendingEntries(w))]

\* Faulty variant of QoFail: the loop runs outside transaction.atomic(), so
\* what was written before the exception stays.
QoFailPartial(w) ==
    /\ InAtomic(w)
    /\ ledger' = ledger \o PendingEntries(w)
    /\ batches' = ApplySaved(batches, qo[w].pend)
    /\ Finish(w, "error")
    /\ UNCHANGED <<initial, locations, nullsLast, min_stock, today, reply, started>>

\* An exception inside transaction.atomic() (crash, deadlock victim, lost
\* connection) rolls the block back.
QoFail(w) ==
    /\ InAtomic(w)
    /\ Finish(w, "error")
    /\ UNCHANGED <<batches, initial, ledger, locations,
           nullsLast, min_stock, today, reply, started>>

\* ------------------------------------------- batch creation, quick-in
HasDefault(locs) == \E i \in 1..Len(locs) : locs[i]

\* Location.objects.filter(business=..., is_default=True).first()
CbLocation(w) ==
    /\ pc[w] = "cb_location"
    /\ IF HasDefault(locations) THEN Goto(w, "cb_atomic") ELSE Goto(w, "cb_locupdate")
    /\ UNCHANGED <<batches, initial, ledger, locations,
           nullsLast, min_stock, today, reply, row, qo, started>>

\* Location.save of the new default: the other defaults are cleared first.
CbLocUpdate(w) ==
    /\ pc[w] = "cb_locupdate"
    /\ locations' = [i \in 1..Len(locations) |-> FALSE]
    /\ Goto(w, "cb_locinsert")
    /\ UNCHANGED <<batches, initial, ledger, nullsLast, min_stock, today, reply, row, qo, started>>

CbLocInsert(w) ==
    /\ pc[w] = "cb_locinsert"
    /\ locations' = Append(locations, TRUE)
    /\ Goto(w, "cb_atomic")
    /\ UNCHANGED <<batches, initial, ledger, nullsLast, min_stock, today, reply, row, qo, started>>

\* with transaction.atomic(): the batch is inserted, then
\* txn.save(skip_quantity_update=True) passes the keyword on to Model.save,
\* which does not take it: TypeError, and the block rolls back.
CbAtomic(w) ==
    /\ pc[w] = "cb_atomic"
    /\ Finish(w, "TypeError")
    /\ UNCHANGED <<batches, initial, ledger, locations,
           nullsLast, min_stock, today, reply, started>>

\* ------------------------------------------ PUT/PATCH and DELETE of a batch
\* BatchViewSet.update: get_object()
BuRead(w) ==
    /\ pc[w] = "bu_read"
    /\ IF ~batches[req[w].batch].exists THEN Finish(w, "NotFound")
       ELSE /\ Goto(w, "bu_write")
            /\ row' = [row EXCEPT ![w] = batches[req[w].batch]]
            /\ UNCHANGED qo
    /\ UNCHANGED <<batches, initial, ledger, locations,
           nullsLast, min_stock, today, reply, started>>

\* BatchSerializer: quantity is a writable IntegerField without validators.
UpdatedRow(r, mem) == [mem EXCEPT !.quantity = r.quantity, !.exists = TRUE]

BuWrite(w) ==
    /\ pc[w] = "bu_write"
    /\ ~Locked(req[w].batch, w)
    /\ batches' = [batches EXCEPT ![req[w].batch] = UpdatedRow(req[w], row[w])]
    /\ Finish(w, "ok")
    /\ UNCHANGED <<initial, ledger, locations, nullsLast, min_stock, today, reply, started>>

\* BatchViewSet.destroy: get_object()
BdRead(w) ==
    /\ pc[w] = "bd_read"
    /\ IF ~batches[req[w].batch].exists THEN Finish(w, "NotFound")
       ELSE Goto(w, "bd_delete") /\ UNCHANGED <<row, qo>>
    /\ UNCHANGED <<batches, initial, ledger, locations,
           nullsLast, min_stock, today, reply, started>>

\* instance.delete(): on_delete=CASCADE removes the batch's ledger entries.
BdDelete(w) ==
    /\ pc[w] = "bd_delete"
    /\ ~Locked(req[w].batch, w)
    /\ batches' = [batches EXCEPT ![req[w].batch] = NoRow]
    /\ ledger' = SelectSeq(ledger, LAMBDA e : e.batch # req[w].batch)
    /\ Finish(w, "ok")
    /\ UNCHANGED <<initial, locations, nullsLast, min_stock, today, reply, started>>

\* ------------------------------------------------------------ read requests
\* Faulty variant of is_low_stock: strictly below the minimum.
is_low_stock_strict(store, ms, p) == total_stock(store, p) < ms[p]

\* Product.is_low_stock
is_low_stock(store, ms, p) == total_stock(store, p) <= ms[p]

\* Faulty variant of get_nearest_expiry: empty batches are not left out.
get_nearest_expiry_any(store, p, day) ==
    LET live == {b \in BatchIds :
                    /\ store[b].exists /\ store[b].product = p
                    /\ store[b].expiry # NoExpiry /\ store[b].expiry >= day}
    IN  IF live = {} THEN NoExpiry
        ELSE store[CHOOSE b \in live :
                       \A c \in live : store[b].expiry <= store[c].expiry].expiry

\* ProductSerializer.get_nearest_expiry: the first of the product's batches
\* with quantity > 0 and expiry_date >= today in expiry order, or None.  A
\* NULL expiry_date never satisfies expiry_date >= today.
get_nearest_expiry(store, p, day) ==
    LET live == {b \in BatchIds :
                    /\ store[b].exists /\ store[b].product = p
                    /\ store[b].quantity > 0
                    /\ store[b].expiry # NoExpiry /\ store[b].expiry >= day}
    IN  IF live = {} THEN NoExpiry
        ELSE store[CHOOSE b \in live :
                       \A c \in live : store[b].expiry <= store[c].expiry].expiry

\* ProductFilter.filter_low_stock: products JOIN batches WHERE
\* batches.quantity <= products.min_stock; one row per matching batch, so the
\* value is the number of times each product is listed.
filter_low_stock(store, ms) ==
    [p \in Products |->
        Cardinality({b \in BatchIds :
                        /\ store[b].exists /\ store[b].product = p
                        /\ store[b].quantity <= ms[p]})]

\* Users: one of the business that owns Products, one with no business.
NoBusiness == "none"
OwnBusiness == "own"
OtherBusiness == "other"
Users == {OwnBusiness, NoBusiness}

BusinessOf(p) == IF p \in Products THEN OwnBusiness ELSE OtherBusiness

\* BatchViewSet.get_queryset: filtered by business only if the user has one.
batch_queryset(store, business) ==
    IF business # NoBusiness
    THEN {b \in BatchIds : store[b].exists /\ BusinessOf(store[b].product) = business}
    ELSE {b \in BatchIds : store[b].exists}

\* TransactionViewSet.get_queryset: the same test on batch__product__business.
transaction_queryset(log, store, business) ==
    IF business # NoBusiness
    THEN SelectSeq(log, LAMBDA e : BusinessOf(store[e.batch].product) = business)
    ELSE log

ReadFrame ==
    UNCHANGED <<batches, initial, ledger, locations, nullsLast, pc, req, row, qo,
                outcome, started, min_stock, today>>

\* Faulty variant of RetrieveProduct: the total is cached in the response
\* and added to on the next call.
RetrieveProductCached(p) ==
    /\ reply' = [kind |-> "product", user |-> OwnBusiness, product |-> p,
                 value |-> [total_stock |->
                                total_stock(batches, p)
                                + (IF reply.kind = "product" /\ reply.product = p
                                   THEN reply.value.total_stock ELSE 0),
                            is_low_stock |-> is_low_stock(batches, min_stock, p),
                            nearest_expiry |-> get_nearest_expiry(batches, p, today)]]
    /\ ReadFrame

\* GET /products/{id}/ by a user of the business: ProductSerializer renders
\* total_stock, is_low_stock and nearest_expiry.
RetrieveProduct(p) ==
    /\ reply' = [kind |-> "product", user |-> OwnBusiness, product |-> p,
                 value |-> [total_stock |-> total_stock(batches, p),
                            is_low_stock |-> is_low_stock(batches, min_stock, p),
                            nearest_expiry |-> get_nearest_expiry(batches, p, today)]]
    /\ ReadFrame

\* GET /products/?low_stock=true by a user of the business.
ListLowStock ==
    /\ reply' = [kind |-> "low_stock", user |-> OwnBusiness, product |-> "none",
                 value |-> filter_low_stock(batches, min_stock)]
    /\ ReadFrame

\* GET /batches/
ListBatches(u) ==
    /\ reply' = [kind |-> "batches", user |-> u, product |-> "none",
                 value |-> batch_queryset(batches, u)]
    /\ ReadFrame

\* GET /transactions/
ListTransactions(u) ==
    /\ reply' = [kind |-> "transactions", user |-> u, product |-> "none",
                 value |-> transaction_queryset(ledger, batches, u)]
    /\ ReadFrame

\* ------------------------------------------------------- specifications
Movement(w) ==
    \/ MvValidate(w) \/ MvRead(w) \/ MvInsert(w) \/ MvUpdate(w) \/ MvFail(w)

QuickOut(w) ==
    \/ QoValidate(w) \/ QoSelect(w) \/ QoDeduct(w) \/ QoCommit(w) \/ QoFail(w)

CreateBatch(w) ==
    \/ CbLocation(w) \/ CbLocUpdate(w) \/ CbLocInsert(w) \/ CbAtomic(w)

BatchEdit(w) ==
    \/ BuRead(w) \/ BuWrite(w) \/ BdRead(w) \/ BdDelete(w)

\* Every endpoint of apps/inventory/urls.py, served concurrently.
Next ==
    \E w \in Workers :
        \/ \E r \in AllRequests : Begin(w, r)
        \/ Movement(w)
        \/ QuickOut(w)
        \/ CreateBatch(w)
        \/ BatchEdit(w)

Spec == Init /\ [][Next]_vars


\* The ledger operations alone, every one running to its end: batch creation,
\* quick-in, IN, OUT, ADJUST and quick-out, served concurrently.
NextMov ==
    \E w \in Workers :
        \/ \E r \in MovementRequests : Begin(w, r)
        \/ MvValidate(w) \/ MvRead(w) \/ MvInsert(w) \/ MvUpdate(w)
        \/ QoValidate(w) \/ QoSelect(w) \/ QoDeduct(w) \/ QoCommit(w)
        \/ CreateBatch(w)

SpecMov == Init /\ [][NextMov]_vars

\* One quick-out call, just accepted by the field validation, against every
\* small store of three batches.
FefoCaller == CHOOSE w \in Workers : TRUE

InitFefo ==
    /\ batches \in {s \in StoresOf(Products, Expiries) :
                        s[1].product = "p1" /\ s[2].product = "p1"}
    /\ InitRest
    /\ pc = [w \in Workers |-> IF w = FefoCaller THEN "qo_validate" ELSE "idle"]
    /\ \E r \in {x \in QuickOutRequests : FieldsValid(x)} :
          req = [w \in Workers |->
                    IF w = FefoCaller THEN [r EXCEPT !.rid = 1] ELSE NoReq]
    /\ started = 1

NextFefo == \E w \in Workers : QuickOut(w)

SpecFefo == InitFefo /\ [][NextFefo]_vars

\* One request served alone: an inward, outward, adjustment or quick-out call
\* just accepted by the field validation.  Batch 1 belongs to a product of the
\* caller's business, batch 2 to a product of another business, batch 3 to the
\* caller's or is missing.
OneCaller == CHOOSE w \in Workers : TRUE

OneStores ==
    LET full == {s \in StoresOf(Products \cup {ForeignProduct}, {LastDate}) :
                    /\ s[1].product = "p1"
                    /\ s[2].product = ForeignProduct
                    /\ s[3].product = "p2"}
    IN  full \cup {[s EXCEPT ![3] = NoRow] : s \in full}

OneRequests ==
    {r \in InOutRequests \cup AdjustRequests : FieldsValid(r)}
    \cup {ReqRecord("QUICK_OUT", 1, p, q, NoExpiry) :
              p \in {"p1", ForeignProduct}, q \in 1..MaxQty}

InitOne ==
    /\ batches \in OneStores
    /\ InitRest
    /\ \E r \in OneRequests :
          /\ req = [w \in Workers |->
                       IF w = OneCaller THEN [r EXCEPT !.rid = 1] ELSE NoReq]
          /\ pc = [w \in Workers |->
                      IF w = OneCaller THEN FirstStep(r) ELSE "idle"]
    /\ started = 1

NextOne == \E w \in Workers : Movement(w) \/ QuickOut(w)

SpecOne == InitOne /\ [][NextOne]_vars

\* Two requests served concurrently on disjoint batches: one worker moves
\* stock of batch 1, the other moves stock of batch 2 or 3 or issues a
\* quick-out of p2, whose only batch is batch 3.  Both run to their end.
PairStores ==
    {s \in StoresOf(Products, Expiries) :
        /\ s[1].product = "p1" /\ s[1].expiry = LastDate
        /\ s[2].product = "p1" /\ s[2].expiry \in Dates \ {LastDate}
        /\ s[3].product = "p2" /\ s[3].expiry = NoExpiry
        /\ s[2].quantity = s[3].quantity}

PairRequests(w) ==
    IF w = OneCaller
    THEN {r \in InOutRequests \cup AdjustRequests : FieldsValid(r) /\ r.batch = 1}
    ELSE {r \in InOutRequests \cup AdjustRequests : FieldsValid(r) /\ r.batch # 1}
         \cup {ReqRecord("QUICK_OUT", 1, "p2", q, NoExpiry) : q \in 1..(MaxQty + 1)}

InitPair ==
    /\ batches \in PairStores
    /\ InitRest
    /\ \E r \in PairRequests(OneCaller) :
          \E t \in UNION {PairRequests(w) : w \in Workers \ {OneCaller}} :
              /\ req = [w \in Workers |->
                           IF w = OneCaller THEN [r EXCEPT !.rid = 1]
                           ELSE [t EXCEPT !.rid = 2]]
              /\ pc = [w \in Workers |->
                          IF w = OneCaller THEN FirstStep(r) ELSE FirstStep(t)]
    /\ started = Cardinality(Workers)

NextPair ==
    \E w \in Workers :
        \/ MvValidate(w) \/ MvRead(w) \/ MvInsert(w) \/ MvUpdate(w)
        \/ QoValidate(w) \/ QoSelect(w) \/ QoDeduct(w) \/ QoCommit(w)

SpecPair == InitPair /\ [][NextPair]_vars


\* One request from its arrival, served alone: any request of the ledger
\* endpoints, also with a quantity of 0 or below or without a reason.
AcceptRequests ==
    LET given == MovementRequests
                 \cup {[r EXCEPT !.quantity = 0 - r.quantity] : r \in InOutRequests}
    IN  given \cup {[r EXCEPT !.reason = FALSE] :
                       r \in {x \in given : x.op \in {"OUT", "ADJUST"}}}

InitAccept ==
    /\ batches \in PairStores
    /\ InitRest
    /\ pc = [w \in Workers |-> "idle"]
    /\ req = [w \in Workers |-> NoReq]
    /\ started = 0

NextAccept ==
    \/ \E r \in AcceptRequests : started = 0 /\ Begin(OneCaller, r)
    \/ \E w \in Workers : Movement(w) \/ QuickOut(w) \/ CreateBatch(w)

SpecAccept == InitAccept /\ [][NextAccept]_vars

\* Read requests against every small store, with no write under way.  Batches
\* 1 and 2 belong to the business (p2 may have no batch), batch 3 to another
\* business; every batch was created empty and stocked by one inward entry.
ReadStores ==
    {s \in StoresOf(Products \cup {ForeignProduct}, Expiries) :
        /\ s[1].product = "p1"
        /\ s[2].product \in Products
        /\ s[3].product = ForeignProduct
        /\ s[3].expiry = LastDate /\ s[3].quantity = MaxQty}

StockedBy(store) ==
    SelectSeq([b \in 1..Cardinality(BatchIds) |->
                  [batch |-> b, type |-> "IN", quantity |-> store[b].quantity,
                   rid |-> 0]],
              LAMBDA e : e.quantity > 0)

InitRead ==
    /\ batches \in ReadStores
    /\ initial = [b \in BatchIds |-> 0]
    /\ ledger = StockedBy(batches)
    /\ locations = <<TRUE>>
    /\ nullsLast \in BOOLEAN
    /\ pc = [w \in Workers |-> "idle"]
    /\ req = [w \in Workers |-> NoReq]
    /\ row = [w \in Workers |-> NoRow]
    /\ qo = [w \in Workers |-> NoQO]
    /\ outcome = [w \in Workers |-> "none"]
    /\ started = 0
    /\ min_stock \in [Products -> 0..MaxQty]
    /\ today \in Dates
    /\ reply = NoReply

NextRead ==
    \/ \E p \in Products : RetrieveProduct(p)
    \/ ListLowStock
    \/ \E u \in Users : ListBatches(u)
    \/ \E u \in Users : ListTransactions(u)

SpecRead == InitRead /\ [][NextRead]_vars


\* ================================================================ claims
AllIdle == \A w \in Workers : pc[w] = "idle"

\* Net effect on batch b of the ledger entries that reference it.  No stored
\* column marks an entry as record-only, so every entry counts.
RECURSIVE NetLedger(_, _)
NetLedger(log, b) ==
    IF log = <<>> THEN 0
    ELSE (IF Head(log).batch = b
          THEN SignedDelta(Head(log).type, Head(log).quantity) ELSE 0)
         + NetLedger(Tail(log), b)

\* C1: once every request has returned, each batch's quantity equals its
\* initial quantity plus the signed deltas of the ledger entries that
\* reference it (checked over batch creation, quick-in, IN, OUT, ADJUST and
\* quick-out only, none of them failing midway).
C1_LedgerInvariant ==
    AllIdle =>
        \A b \in BatchIds :
            batches[b].quantity = initial[b] + NetLedger(ledger, b)

\* C2: every batch has quantity >= 0 in every reachable state.
C2_NonNegative == \A b \in BatchIds : batches[b].quantity >= 0

\* C3: when the only requests served are N OUT calls of Q/N each against one
\* batch created with quantity Q (N the number of workers), and all have
\* returned, the batch holds exactly 0 and the ledger exactly N entries.
IsOutOf(e, b, q) == e.batch = b /\ e.type = "OUT" /\ e.quantity = q

C3_ConcurrentOut ==
    \A b \in BatchIds : \A q \in 1..MaxQty :
        ( /\ AllIdle
          /\ started = Cardinality(Workers)
          /\ initial[b] = Cardinality(Workers) * q
          /\ \A w \in Workers :
                /\ req[w].op = "OUT" /\ req[w].batch = b /\ req[w].quantity = q
                /\ outcome[w] = "ok" )
        => /\ batches[b].quantity = 0
           /\ Len(ledger) = Cardinality(Workers)
           /\ \A i \in 1..Len(ledger) : IsOutOf(ledger[i], b, q)

\* C4: two deductions in flight on the same batch whose combined amount
\* exceeds the batch's quantity have not both passed the non-negativity check.
Deduction(r) ==
    IF r.op = "OUT" THEN r.quantity
    ELSE IF r.op = "ADJUST" /\ r.quantity < 0 THEN 0 - r.quantity
    ELSE 0

PassedCheck(w) == pc[w] \in {"mv_read", "mv_insert", "mv_update"}

C4_NoDoublePass ==
    \A v, w \in Workers :
        ( /\ v # w
          /\ PassedCheck(v) /\ PassedCheck(w)
          /\ req[v].batch = req[w].batch
          /\ Deduction(req[v]) > 0 /\ Deduction(req[w]) > 0 )
        => Deduction(req[v]) + Deduction(req[w]) <= batches[req[w].batch].quantity

\* C5: with a single movement served (so that nothing else can interfere), in
\* no observable state does its ledger entry exist without its delta in the
\* batch quantity, nor the quantity differ from the initial one without it.
C5_WritesTogether ==
    \A w \in Workers :
        (started = 1 /\ req[w].op \in {"IN", "OUT", "ADJUST"})
        => \A b \in BatchIds :
              batches[b].quantity = initial[b] + NetLedger(ledger, b)


\* ---------------------------------------------------- quick-out claims
\* Checked over single quick-out calls: the store the call starts from is the
\* initial one (quantities `initial`, empty ledger).
QuickOutEnded(w, o) ==
    req[w].op = "QUICK_OUT" /\ pc[w] = "idle" /\ outcome[w] = o

RECURSIVE TakenFrom(_, _)
TakenFrom(allocs, b) ==
    IF allocs = <<>> THEN 0
    ELSE (IF Head(allocs).batch = b THEN Head(allocs).quantity ELSE 0)
         + TakenFrom(Tail(allocs), b)

RECURSIVE TakenUpTo(_, _)
TakenUpTo(allocs, n) ==
    IF n = 0 THEN 0 ELSE allocs[n].quantity + TakenUpTo(allocs, n - 1)

LedgerIs(allocs, rid) ==
    /\ Len(ledger) = Len(allocs)
    /\ \A i \in 1..Len(allocs) :
          ledger[i] = [batch |-> allocs[i].batch, type |-> "OUT",
                       quantity |-> allocs[i].quantity, rid |-> rid]

StoreUntouched ==
    /\ ledger = <<>>
    /\ \A b \in BatchIds : batches[b].quantity = initial[b]

\* C6: a quick-out is all-or-nothing: while it runs and after it failed -
\* also after some batches were deducted - every batch quantity and the
\* ledger are as before the call; after it succeeded every selected deduction
\* and its ledger entry are present.
C6_AllOrNothing ==
    \A w \in Workers :
        req[w].op = "QUICK_OUT" =>
            IF QuickOutEnded(w, "ok")
            THEN /\ LedgerIs(qo[w].pend, req[w].rid)
                 /\ \A b \in BatchIds :
                       batches[b].quantity = initial[b] - TakenFrom(qo[w].pend, b)
            ELSE StoreUntouched

C6_Witness ==
    \E w \in Workers :
        /\ QuickOutEnded(w, "error")
        /\ Len(qo[w].pend) >= 1
        /\ StoreUntouched

\* Sum of the quantities of the product's batches in the store the call
\* starts from.
StartTotal(p) ==
    LET mine == {b \in BatchIds : batches[b].exists /\ batches[b].product = p}
    IN  SumOver(mine, [b \in mine |-> initial[b]])

\* C7: a quick-out for more than the sum of the quantities of the product's
\* batches never gets past validation, ends with InsufficientStock, changes
\* no batch quantity and writes no ledger entry.
C7_OverRequestRejected ==
    \A w \in Workers :
        (req[w].op = "QUICK_OUT" /\ req[w].quantity > StartTotal(req[w].product))
        => /\ pc[w] \in {"qo_validate", "idle"}
           /\ pc[w] = "idle" => outcome[w] = "InsufficientStock"
           /\ StoreUntouched

C7_Witness ==
    \E w \in Workers :
        /\ QuickOutEnded(w, "InsufficientStock")
        /\ req[w].quantity > StartTotal(req[w].product)
        /\ StartTotal(req[w].product) > 0
        /\ StoreUntouched

\* The product's batches the call could draw from.
StartCandidates(p) ==
    {b \in BatchIds : batches[b].exists /\ batches[b].product = p /\ initial[b] > 0}

Earlier(e, f) == e # NoExpiry /\ (f = NoExpiry \/ e < f)

\* C8: after a successful quick-out, a batch was deducted only if every
\* candidate with an earlier expiry is emptied, a batch without expiry only
\* if every dated candidate is emptied.
C8_FefoOrder ==
    \A w \in Workers :
        QuickOutEnded(w, "ok") =>
            \A i \in 1..Len(qo[w].pend) :
                \A c \in StartCandidates(req[w].product) :
                    Earlier(batches[c].expiry, batches[qo[w].pend[i].batch].expiry)
                    => batches[c].quantity = 0

\* C9: a successful quick-out visits the candidates in the order returned,
\* deducts min(batch quantity, remaining) from each with one OUT entry per
\* affected batch, and stops when remaining reaches 0: every affected batch
\* but the last is emptied, the batches after it are untouched.
C9_Greedy ==
    \A w \in Workers :
        QuickOutEnded(w, "ok") =>
            LET c == qo[w].cands
                a == qo[w].pend
                n == Len(qo[w].pend)
            IN  /\ n <= Len(c)
                /\ {c[i] : i \in 1..Len(c)} = StartCandidates(req[w].product)
                /\ Len(c) = Cardinality(StartCandidates(req[w].product))
                /\ \A i \in 1..n :
                      /\ a[i].batch = c[i]
                      /\ a[i].quantity =
                            Min(initial[c[i]], req[w].quantity - TakenUpTo(a, i - 1))
                      /\ a[i].quantity >= 1
                /\ TakenUpTo(a, n) = req[w].quantity
                /\ LedgerIs(a, req[w].rid)
                /\ \A i \in 1..Len(c) :
                      batches[c[i]].quantity =
                          IF i < n THEN 0
                          ELSE IF i = n THEN initial[c[i]] - a[i].quantity
                          ELSE initial[c[i]]
                /\ \A b \in BatchIds \ StartCandidates(req[w].product) :
                      batches[b].quantity = initial[b]

C9_Witness ==
    \E w \in Workers :
        /\ QuickOutEnded(w, "ok")
        /\ Len(qo[w].pend) = 2
        /\ Len(qo[w].cands) = 3
        /\ batches[qo[w].cands[1]].quantity = 0
        /\ batches[qo[w].cands[2]].quantity > 0
        /\ batches[qo[w].cands[2]].quantity < initial[qo[w].cands[2]]
        /\ batches[qo[w].cands[3]].quantity = initial[qo[w].cands[3]]

\* C10: between two candidates with the same expiry date (or both without),
\* the later-created one is deducted only after the earlier-created one is
\* emptied.  Batch identifiers ascend with created_at.
C10_TieBreak ==
    \A w \in Workers :
        QuickOutEnded(w, "ok") =>
            \A i \in 1..Len(qo[w].pend) :
                \A c \in StartCandidates(req[w].product) :
                    ( /\ batches[c].expiry = batches[qo[w].pend[i].batch].expiry
                      /\ c < qo[w].pend[i].batch )
                    => batches[c].quantity = 0

\* Sum of the quantities of a sequence of ledger entries.
RECURSIVE EntriesTotal(_)
EntriesTotal(entries) ==
    IF entries = <<>> THEN 0
    ELSE Head(entries).quantity + EntriesTotal(Tail(entries))

\* C11: whenever a quick-out has returned successfully - other movements on
\* the product running at the same time included - total_deducted equals the
\* requested quantity and the sum of the quantities of the returned entries,
\* and batches_affected is the number of distinct batches they reference.
C11_ResultConsistent ==
    \A w \in Workers :
        QuickOutEnded(w, "ok") =>
            LET r == QuickOutResult(w) IN
                /\ r.total_deducted = req[w].quantity
                /\ r.total_deducted = EntriesTotal(r.transactions)
                /\ r.batches_affected =
                      Cardinality({r.transactions[i].batch :
                                      i \in 1..Len(r.transactions)})

\* C12: a quick-out for exactly the sum of the quantities of the product's
\* batches is not refused, and once it has returned successfully every batch
\* of the product holds 0, nothing is left to deduct and the entries written
\* add up to the request.
ProductBatches(p) ==
    {b \in BatchIds : batches[b].exists /\ batches[b].product = p}

C12_ExactExhaustion ==
    \A w \in Workers :
        (req[w].op = "QUICK_OUT" /\ req[w].quantity = StartTotal(req[w].product))
        => /\ pc[w] = "idle" => outcome[w] \in {"ok", "error"}
           /\ QuickOutEnded(w, "ok") =>
                 /\ \A b \in ProductBatches(req[w].product) :
                       batches[b].quantity = 0
                 /\ qo[w].remaining = 0
                 /\ EntriesTotal(ledger) = req[w].quantity

C12_Witness ==
    \E w \in Workers :
        /\ QuickOutEnded(w, "ok")
        /\ req[w].quantity = StartTotal(req[w].product)
        /\ Cardinality({b \in ProductBatches(req[w].product) : initial[b] > 0}) = 3
        /\ \E b \in ProductBatches(req[w].product) : batches[b].expiry = NoExpiry
        /\ \A b \in ProductBatches(req[w].product) : batches[b].quantity = 0

\* C13: when the only requests served are one quick-out and one other
\* deduction (quick-out or single-batch OUT) on the same product, and both
\* have returned, the entries written deduct no more than the product held,
\* no batch is negative, and a request that was refused wrote nothing.
OnProduct(r, p) ==
    \/ r.op = "QUICK_OUT" /\ r.product = p
    \/ r.op = "OUT" /\ batches[r.batch].product = p

EntriesOf(rid) == SelectSeq(ledger, LAMBDA e : e.rid = rid)

C13_ConcurrentQuickOut ==
    \A p \in Products :
        ( /\ AllIdle
          /\ started = Cardinality(Workers)
          /\ \A w \in Workers : OnProduct(req[w], p) /\ req[w].rid > 0
          /\ \E w \in Workers : req[w].op = "QUICK_OUT" )
        => /\ EntriesTotal(ledger) <= StartTotal(p)
           /\ \A b \in ProductBatches(p) : batches[b].quantity >= 0
           /\ \A w \in Workers :
                 outcome[w] = "InsufficientStock" => EntriesOf(req[w].rid) = <<>>

\* C14: a createBatch or quick-in request that passed the field validation
\* and has returned succeeded, and wrote exactly one entry: IN, of the
\* requested quantity, for a batch that holds exactly that quantity.
C14_CreationRecorded ==
    \A w \in Workers :
        ( /\ req[w].op \in {"CREATE_BATCH", "QUICK_IN"}
          /\ FieldsValid(req[w])
          /\ pc[w] = "idle" )
        => /\ outcome[w] = "ok"
           /\ Len(EntriesOf(req[w].rid)) = 1
           /\ \A i \in 1..Len(EntriesOf(req[w].rid)) :
                 LET e == EntriesOf(req[w].rid)[i] IN
                     /\ e.type = "IN"
                     /\ e.quantity = req[w].quantity
                     /\ batches[e.batch].exists
                     /\ batches[e.batch].quantity = req[w].quantity

\* ------------------------------------------- single movements, served alone
\* Checked over requests served alone: the store the request starts from is
\* the initial one (quantities `initial`, empty ledger).
MovementEnded(w, o) ==
    req[w].op \in {"IN", "OUT", "ADJUST"} /\ pc[w] = "idle" /\ outcome[w] = o

Overdraws(r) ==
    /\ batches[r.batch].exists
    /\ \/ r.op = "OUT" /\ r.quantity > initial[r.batch]
       \/ r.op = "ADJUST" /\ initial[r.batch] + r.quantity < 0

\* C15: an OUT of more than the batch holds, or an ADJUST that would take it
\* below 0, never gets past validation, ends with InsufficientStock, changes
\* no batch quantity and writes no ledger entry.
C15_RejectedBeforeWrite ==
    \A w \in Workers :
        Overdraws(req[w])
        => /\ pc[w] \in {"mv_validate", "idle"}
           /\ pc[w] = "idle" => outcome[w] = "InsufficientStock"
           /\ StoreUntouched

C15_Witness ==
    \E w \in Workers :
        /\ MovementEnded(w, "InsufficientStock")
        /\ req[w].op = "ADJUST"
        /\ initial[req[w].batch] > 0
        /\ Overdraws(req[w])
        /\ StoreUntouched

\* C16: a movement that returned successfully left its batch, which held n,
\* at n + q for IN, n - q for OUT and n + q for ADJUST (q signed), left the
\* other batches alone, and appended exactly one entry of its type and
\* quantity for that batch.
C16_MovementEffect ==
    \A w \in Workers :
        MovementEnded(w, "ok") =>
            LET r == req[w]
                n == initial[r.batch]
            IN  /\ batches[r.batch].quantity =
                      (CASE r.op = "IN" -> n + r.quantity
                         [] r.op = "OUT" -> n - r.quantity
                         [] OTHER -> n + r.quantity)
                /\ \A b \in BatchIds \ {r.batch} : batches[b].quantity = initial[b]
                /\ ledger = <<[batch |-> r.batch, type |-> r.op,
                               quantity |-> r.quantity, rid |-> r.rid]>>

C16_Witness ==
    \E w \in Workers :
        /\ MovementEnded(w, "ok")
        /\ req[w].op = "OUT"
        /\ req[w].quantity = MaxQty
        /\ batches[req[w].batch].quantity = 0
        /\ Len(ledger) = 1

\* C19: a request that names a batch or product that does not exist or is
\* not of the caller's business changes no batch and writes no entry, and
\* once returned it was refused as a client error.
ClientErrors == {"InvalidInput", "InsufficientStock", "NotFound", "ProductNotFound"}

OutOfScope(r) ==
    IF r.op = "QUICK_OUT" THEN r.product \notin Products
    ELSE \/ ~batches[r.batch].exists
         \/ batches[r.batch].product \notin Products

C19_ScopeEnforced ==
    \A w \in Workers :
        (req[w].op \in {"IN", "OUT", "ADJUST", "QUICK_OUT"} /\ OutOfScope(req[w]))
        => /\ StoreUntouched
           /\ pc[w] = "idle" => outcome[w] \in ClientErrors

\* ------------------------------------------------------ frame and history
\* C17: every step that changes the quantity of an existing batch is the
\* write of a ledger movement: the batch save that ends an IN, OUT or ADJUST,
\* or the commit of a quick-out.
MovementWrite(w) ==
    \/ req[w].op \in {"IN", "OUT", "ADJUST"} /\ pc[w] = "mv_update" /\ pc'[w] = "idle"
    \/ req[w].op = "QUICK_OUT" /\ pc[w] = "qo_loop" /\ pc'[w] = "idle"

C17_OnlyMovements ==
    [][\A b \in BatchIds :
          ( /\ batches[b].exists /\ batches'[b].exists
            /\ batches'[b].quantity # batches[b].quantity )
          => \E w \in Workers : MovementWrite(w)]_vars

\* C18: every step leaves the entries already in the ledger in place and
\* unchanged: the ledger before the step is a prefix of the ledger after it.
C18_AppendOnly ==
    [][/\ Len(ledger') >= Len(ledger)
       /\ \A i \in 1..Len(ledger) : ledger'[i] = ledger[i]]_vars

\* ------------------------------------------------------- disjoint batches
\* What a request does when it runs with no other request under way, from
\* the initial store: whether it is accepted, and the quantity it moves.
AcceptedAlone(r) ==
    CASE r.op = "IN" -> TRUE
      [] r.op = "OUT" -> r.quantity <= initial[r.batch]
      [] r.op = "ADJUST" -> initial[r.batch] + r.quantity >= 0
      [] OTHER -> r.quantity <= StartTotal(r.product)

MovedAlone(r) ==
    CASE r.op = "IN" -> r.quantity
      [] r.op = "OUT" -> 0 - r.quantity
      [] r.op = "ADJUST" -> r.quantity
      [] OTHER -> 0 - r.quantity

Touched(r) ==
    IF r.op = "QUICK_OUT" THEN ProductBatches(r.product) ELSE {r.batch}

HeldBy(S) == SumOver(S, [b \in S |-> batches[b].quantity])

StartedWith(S) == SumOver(S, [b \in S |-> initial[b]])

\* C20: when two movements on disjoint batches were served concurrently and
\* both have returned, whatever the interleaving, each was accepted or
\* refused, moved its batches and wrote its entries exactly as when run
\* alone, in either order; no other batch changed and the ledger holds
\* nothing else.
C20_DisjointIndependent ==
    AllIdle =>
        /\ \A w \in Workers :
              LET r == req[w] IN
                  /\ outcome[w] = IF AcceptedAlone(r) THEN "ok" ELSE "InsufficientStock"
                  /\ HeldBy(Touched(r)) =
                        StartedWith(Touched(r))
                        + (IF AcceptedAlone(r) THEN MovedAlone(r) ELSE 0)
                  /\ EntriesOf(r.rid) =
                        IF AcceptedAlone(r)
                        THEN <<[batch |-> CHOOSE b \in Touched(r) : TRUE,
                                type |-> IF r.op = "QUICK_OUT" THEN "OUT" ELSE r.op,
                                quantity |-> r.quantity, rid |-> r.rid]>>
                        ELSE <<>>
        /\ \A b \in BatchIds \ UNION {Touched(req[w]) : w \in Workers} :
              batches[b].quantity = initial[b]
        /\ Len(ledger) = Cardinality({w \in Workers : AcceptedAlone(req[w])})

C20_Witness ==
    /\ AllIdle
    /\ \A w \in Workers : outcome[w] = "ok" /\ req[w].op \in {"OUT", "ADJUST"}
    /\ \E v, w \in Workers :
          /\ batches[req[v].batch].product = batches[req[w].batch].product
          /\ req[v].batch # req[w].batch
          /\ batches[req[v].batch].quantity # initial[req[v].batch]
          /\ batches[req[w].batch].quantity # initial[req[w].batch]
          /\ Len(ledger) = 2
          /\ ledger[1].rid = req[w].rid /\ ledger[2].rid = req[v].rid
          /\ req[w].rid > req[v].rid


\* ------------------------------------------------- locations and creation
\* C27: in every reachable state the business has at most one location with
\* is_default set.
DefaultLocations == {i \in 1..Len(locations) : locations[i]}

C27_OneDefault == Cardinality(DefaultLocations) <= 1

\* C28: when the only request served is a createBatch or quick-in and it has
\* returned without success, the store is as before the call: no batch
\* quantity changed, no ledger entry, and no location was added.
C28_FailedCreationLeavesNothing ==
    \A w \in Workers :
        ( /\ started = 1
          /\ req[w].op \in {"CREATE_BATCH", "QUICK_IN"}
          /\ pc[w] = "idle"
          /\ outcome[w] # "ok" )
        => /\ StoreUntouched
           /\ locations = <<>>

\* C29: each entry a quick-out adds has a quantity of at least 1 and at most
\* the quantity its batch holds in the database when the entry is applied,
\* and is the call's first entry for that batch.
C29_EntryWithinBatch ==
    [][\A w \in Workers :
          ( /\ pc[w] = "qo_loop"
            /\ Len(qo'[w].pend) = Len(qo[w].pend) + 1 )
          => LET a == qo'[w].pend[Len(qo'[w].pend)] IN
                 /\ a.quantity >= 1
                 /\ a.quantity <= batches[a.batch].quantity
                 /\ \A i \in 1..Len(qo[w].pend) : qo[w].pend[i].batch # a.batch]_vars


\* ------------------------------------------------------------- reports
\* MovementReportView.get with ?product=p and no dates: the entries of the
\* product's batches, summed by type.
MovementReport(log, store, p) ==
    LET of(type) == SelectSeq(log, LAMBDA e : store[e.batch].product = p /\ e.type = type)
        inward == EntriesTotal(of("IN"))
        outward == EntriesTotal(of("OUT"))
        adjustments == EntriesTotal(of("ADJUST"))
    IN  [total_inward |-> inward,
         total_outward |-> outward,
         total_adjustments |-> adjustments,
         net_change |-> inward - outward + adjustments]

\* C25: whenever no request is under way, after any batch creations and
\* movements, the report's net_change for a product equals the product's
\* total stock.
C25_ReportMatchesStock ==
    AllIdle =>
        \A p \in Products :
            MovementReport(ledger, batches, p).net_change = total_stock(batches, p)


\* ------------------------------------------------------------ read claims
\* Checked over read requests with no write under way: every step is a read.
ProductReply == reply.kind = "product"

RECURSIVE StockUpTo(_, _)
StockUpTo(p, n) ==
    IF n = 0 THEN 0
    ELSE (IF batches[n].exists /\ batches[n].product = p
          THEN batches[n].quantity ELSE 0)
         + StockUpTo(p, n - 1)

LiveDates(p) ==
    {batches[b].expiry : b \in {c \in ProductBatches(p) :
                                    /\ batches[c].quantity > 0
                                    /\ batches[c].expiry \in Dates
                                    /\ batches[c].expiry >= today}}

\* C23: nearest_expiry is the least date that counts, and none when no date
\* counts.
C23_NearestExpiry ==
    ProductReply =>
        LET v == reply.value.nearest_expiry
            D == LiveDates(reply.product)
        IN  /\ D = {} <=> v = NoExpiry
            /\ D # {} => (v \in D /\ \A d \in D : v <= d)

C23_Witness ==
    /\ ProductReply
    /\ reply.value.nearest_expiry = LastDate
    /\ \E b \in ProductBatches(reply.product) :
          /\ batches[b].expiry \in Dates
          /\ batches[b].expiry < LastDate
          /\ batches[b].expiry >= today
          /\ batches[b].quantity = 0

\* C26: the low_stock=true listing holds a product once if its total stock
\* is at most its min_stock, and not at all otherwise.
C26_LowStockFilter ==
    reply.kind = "low_stock" =>
        \A p \in Products :
            reply.value[p] =
                IF StockUpTo(p, Cardinality(BatchIds)) <= min_stock[p] THEN 1 ELSE 0

\* C30: the batch and transaction listings hold only records whose product
\* is of the business of the user they answer; for a user without business
\* that is none.
C30_ListingsScoped ==
    /\ reply.kind = "batches" =>
          \A b \in reply.value : BusinessOf(batches[b].product) = reply.user
    /\ reply.kind = "transactions" =>
          \A i \in 1..Len(reply.value) :
              BusinessOf(batches[reply.value[i].batch].product) = reply.user


\* ------------------------------------------------------- input validation
\* Checked over single requests from their arrival.
Rejectable(r) ==
    \/ r.op \in {"IN", "OUT", "QUICK_IN", "QUICK_OUT"} /\ r.quantity <= 0
    \/ r.op = "ADJUST" /\ ~r.reason

\* C24: a request for IN, OUT, quick-in or quick-out with quantity <= 0, or
\* an adjustment without reason, has ended as InvalidInput as soon as it is
\* taken up: no batch was read, no batch quantity changed, the ledger is
\* empty; and every entry written for an IN, OUT, quick-in or quick-out
\* request has a quantity of at least 1.
C24_InvalidInputRejected ==
    \A w \in Workers :
        /\ (req[w].rid > 0 /\ Rejectable(req[w]))
           => /\ pc[w] = "idle"
              /\ outcome[w] = "InvalidInput"
              /\ row[w] = NoRow /\ qo[w] = NoQO
              /\ StoreUntouched
        /\ req[w].op \in {"IN", "OUT", "QUICK_IN", "QUICK_OUT"}
           => \A i \in 1..Len(ledger) :
                 ledger[i].rid = req[w].rid => ledger[i].quantity >= 1

C24_Witness ==
    \E w \in Workers :
        /\ req[w].op = "ADJUST" /\ ~req[w].reason
        /\ req[w].quantity < 0
        /\ batches[req[w].batch].quantity + req[w].quantity >= 0
        /\ outcome[w] = "InvalidInput"
        /\ StoreUntouched


====
